---- MODULE Spec2Model ----
(***************************************************************************)
(* Model of the schema manager and replace-loader of                      *)
(* src/data/database-prep/create_database.py (class SupplyChainDB and      *)
(* main).  The store is the SQLite file: the set of tables and indexes it  *)
(* holds and the committed rows of the seven schema tables.  A load is     *)
(* split at its first commit (the DELETE), because the state between the   *)
(* two commits is a committed state of the store.  Spec follows the        *)
(* methods called one by one in any order; MainSpec follows main: the      *)
(* schema step, the seven loads in their order, the verification, the      *)
(* except and finally clauses, and the sessions the run opens.             *)
(***************************************************************************)
EXTENDS Integers, Sequences, FiniteSets, TLC

\* Longest source record sequence (rows of one CSV extract) that is explored.
MaxLen == 3

\* A row is a record of the columns that have a value: a missing value
\* (NaN in the data frame, NULL in the store) is a column without an entry.
\* NULL stands for the missing value where a key is formed.
NULL == "NULL"

\* csv_path.exists() is false.
Missing == [kind |-> "missing"]

\* The file exists but has no header and no rows: pd.read_csv raises.
EmptyFile == [kind |-> "empty_file"]

\* The file holds a header and the records rows.
Records(rows) == [kind |-> "records", rows |-> rows]

\* A value of a date column that pd.to_datetime cannot parse.
BadDate == <<0, 0>>

-----------------------------------------------------------------------------
(* Schema *)

SchemaTables ==
    {"vendor", "warehouse", "product", "purchase_order",
     "inventory", "shipment", "demand"}

\* A user table a pre-existing database file may hold besides the schema.
UserTables == {"sqlitex"}

\* The spelling of each table name, for the LIKE filter on sqlite_master.
Spelling ==
    [vendor         |-> <<"v","e","n","d","o","r">>,
     warehouse      |-> <<"w","a","r","e","h","o","u","s","e">>,
     product        |-> <<"p","r","o","d","u","c","t">>,
     purchase_order |-> <<"p","u","r","c","h","a","s","e","_","o","r","d","e","r">>,
     inventory      |-> <<"i","n","v","e","n","t","o","r","y">>,
     shipment       |-> <<"s","h","i","p","m","e","n","t">>,
     demand         |-> <<"d","e","m","a","n","d">>,
     sqlitex        |-> <<"s","q","l","i","t","e","x">>]

PRIMARY_KEYS ==
    [vendor         |-> <<"vendor_id">>,
     product        |-> <<"sku_id">>,
     warehouse      |-> <<"warehouse_id">>,
     purchase_order |-> <<"po_id">>,
     shipment       |-> <<"shipment_id">>,
     inventory      |-> <<"warehouse_id", "sku_id">>,
     demand         |-> <<"date", "sku_id">>]

\* FOREIGN KEY (column) REFERENCES parent(parentCol) ON DELETE CASCADE,
\* in the order of the declarations.
FOREIGN_KEYS ==
    << [child |-> "purchase_order", column |-> "sku_id",
        parent |-> "product", parentCol |-> "sku_id"],
       [child |-> "purchase_order", column |-> "vendor_id",
        parent |-> "vendor", parentCol |-> "vendor_id"],
       [child |-> "inventory", column |-> "warehouse_id",
        parent |-> "warehouse", parentCol |-> "warehouse_id"],
       [child |-> "inventory", column |-> "sku_id",
        parent |-> "product", parentCol |-> "sku_id"],
       [child |-> "shipment", column |-> "order_id",
        parent |-> "purchase_order", parentCol |-> "po_id"],
       [child |-> "demand", column |-> "sku_id",
        parent |-> "product", parentCol |-> "sku_id"] >>

\* The columns declared NOT NULL, among the columns that are modelled.
NOT_NULL ==
    [vendor         |-> {"supplier_name"},
     warehouse      |-> {"location"},
     product        |-> {"product_type"},
     purchase_order |-> {"sku_id", "vendor_id", "po_date", "po_qty",
                         "promised_delivery_date"},
     inventory      |-> {"warehouse_id", "sku_id", "stock_available"},
     shipment       |-> {"order_id", "status", "event_timestamp",
                         "shipping_carrier"},
     demand         |-> {"date", "sku_id"}]

\* The index declarations: index name |-> indexed table.
SchemaIndexes ==
    [idx_po_sku              |-> "purchase_order",
     idx_po_vendor           |-> "purchase_order",
     idx_po_dates            |-> "purchase_order",
     idx_inventory_warehouse |-> "inventory",
     idx_inventory_sku       |-> "inventory",
     idx_shipment_status     |-> "shipment",
     idx_shipment_dates      |-> "shipment",
     idx_demand_date         |-> "demand",
     idx_demand_sku          |-> "demand"]

Has(r, c) == c \in DOMAIN r

IsNull(r, c) == ~Has(r, c)

\* The value of column c of row r.
Col(r, c) == IF Has(r, c) THEN r[c] ELSE NULL

\* Dates and timestamps are <<day, hour>>; a calendar date has hour 0.
\* Stored as ISO text, they compare in chronological order.
DateGeq(a, b) == a[1] > b[1] \/ (a[1] = b[1] /\ a[2] >= b[2])

\* A CHECK constraint passes when it is true or NULL.  REAL values are
\* held in hundredths (defect_rate 2 is 0.02, quality_score 450 is 4.5).
Between(r, c, lo, hi) == IsNull(r, c) \/ (r[c] >= lo /\ r[c] <= hi)

AtLeast(r, c, lo) == IsNull(r, c) \/ r[c] >= lo

\* Variant: the tables are declared without CHECK constraints.
CheckConstraints_none(t, r) == TRUE

\* The CHECK constraints of each CREATE TABLE.
CheckConstraints(t, r) ==
    CASE t = "vendor" ->
            /\ Between(r, "defect_rate", 0, 100)
            /\ AtLeast(r, "lead_time_days", 0)
            /\ Between(r, "quality_score", 0, 500)
      [] t = "purchase_order" ->
            /\ IsNull(r, "po_qty") \/ r["po_qty"] > 0
            /\ \/ IsNull(r, "promised_delivery_date")
               \/ IsNull(r, "po_date")
               \/ DateGeq(r["promised_delivery_date"], r["po_date"])
      [] t = "inventory" ->
            AtLeast(r, "stock_available", 0)
      [] t = "shipment" ->
            /\ \/ IsNull(r, "status")
               \/ r["status"] \in {"pending", "in_transit", "delivered",
                                   "delayed", "cancelled"}
            /\ \/ IsNull(r, "actual_delivery_date")
               \/ IsNull(r, "event_timestamp")
               \/ DateGeq(r["actual_delivery_date"], r["event_timestamp"])
      [] t = "demand" ->
            AtLeast(r, "price", 0)
      [] OTHER -> TRUE

-----------------------------------------------------------------------------
(* The extracts: the records a CSV file of data/derived may hold *)

ProductRows ==
    { [sku_id |-> "S1", product_type |-> "widget"],
      [sku_id |-> "S2", product_type |-> "widget"] }

\* The second record has no location.
WarehouseRows ==
    { [warehouse_id |-> "W1", location |-> "east"],
      [warehouse_id |-> "W1"] }

VendorRows ==
    { [vendor_id |-> "V1", supplier_name |-> "acme", defect_rate |-> d,
       lead_time_days |-> 5, quality_score |-> 450] : d \in {2, 150} }

\* po_date and promised_delivery_date as the file spells them: 1 Jan 10:00
\* and 1 Jan are the same calendar date, 10 Jan is later.
PurchaseOrderRows ==
    { [po_id |-> "P1", sku_id |-> "S1", vendor_id |-> "V1",
       po_date |-> <<1, 10>>, po_qty |-> 10,
       promised_delivery_date |-> <<1, 0>>],
      [po_id |-> "P1", sku_id |-> "S1", vendor_id |-> "V1",
       po_date |-> <<1, 0>>, po_qty |-> 0,
       promised_delivery_date |-> <<10, 0>>],
      [po_id |-> "P1", sku_id |-> "S1", vendor_id |-> "V1",
       po_date |-> <<10, 0>>, po_qty |-> 10,
       promised_delivery_date |-> <<1, 0>>] }

InventoryRows ==
    { [warehouse_id |-> "W1", sku_id |-> "S1", stock_available |-> 5],
      [warehouse_id |-> "W1", sku_id |-> "S2", stock_available |-> 5],
      [warehouse_id |-> "W1", sku_id |-> "S1", stock_available |-> -1] }

\* Order P9 is in no purchase-order extract: a reference to it is an orphan.
ShipmentRows ==
    { [shipment_id |-> "H1", order_id |-> "P1", status |-> "pending",
       event_timestamp |-> <<1, 10>>, shipping_carrier |-> "ups"],
      [shipment_id |-> "H1", order_id |-> "P9", status |-> "pending",
       event_timestamp |-> <<1, 10>>, shipping_carrier |-> "ups"],
      [shipment_id |-> "H2", order_id |-> "P9", status |-> "pending",
       event_timestamp |-> <<1, 10>>, shipping_carrier |-> "ups"],
      [shipment_id |-> "H1", order_id |-> "P1", status |-> "lost",
       event_timestamp |-> <<1, 10>>, shipping_carrier |-> "ups"] }

\* 1 Jan and 1 Jan 10:00 are different key values of one calendar date.
DemandRows ==
    { [date |-> <<1, 0>>, sku_id |-> "S1", price |-> 3],
      [date |-> <<1, 10>>, sku_id |-> "S1", price |-> 3],
      [date |-> BadDate, sku_id |-> "S1", price |-> 3] }

\* The header of each extract, as prepare_data.py writes it (the columns
\* that are modelled).
CSV_COLUMNS ==
    [vendor         |-> {"vendor_id", "supplier_name", "defect_rate",
                         "lead_time_days", "quality_score"},
     warehouse      |-> {"warehouse_id", "location"},
     product        |-> {"sku_id", "product_type"},
     purchase_order |-> {"po_id", "sku_id", "vendor_id", "po_date", "po_qty",
                         "promised_delivery_date"},
     inventory      |-> {"warehouse_id", "sku_id", "stock_available"},
     shipment       |-> {"shipment_id", "order_id", "status",
                         "event_timestamp", "shipping_carrier"},
     demand         |-> {"date", "sku_id", "price"}]

SourceRows ==
    [vendor         |-> VendorRows,
     warehouse      |-> WarehouseRows,
     product        |-> ProductRows,
     purchase_order |-> PurchaseOrderRows,
     inventory      |-> InventoryRows,
     shipment       |-> ShipmentRows,
     demand         |-> DemandRows]

SeqsUpTo(S, n) == UNION { [1..k -> S] : k \in 0..n }

\* What a load may find at csv_path: nothing, a file without a header, or
\* a header followed by up to MaxLen records.
Sources(t) ==
    {Missing, EmptyFile} \cup
    { Records(rows) : rows \in SeqsUpTo(SourceRows[t], MaxLen) }

-----------------------------------------------------------------------------
(* The data-frame steps of load_data_from_csv *)

\* Variant: the existence test is left out.
exists_always(src) == TRUE

\* csv_path.exists()
exists(src) == src.kind # "missing"

\* pd.read_csv(csv_path): the records, or an exception when the file has
\* nothing to parse (or is not there).
read_csv(src) ==
    IF src.kind = "records" THEN [ok |-> TRUE, df |-> src.rows]
    ELSE [ok |-> FALSE, df |-> <<>>]

\* The values of the key columns of a row, df[subset].
KeyOf(r, subset) == [i \in 1..Len(subset) |-> Col(r, subset[i])]

\* Variant: only a row repeating the key of the row just before it is
\* dropped.
RECURSIVE drop_duplicates_adjacent(_, _, _)
drop_duplicates_adjacent(df, subset, seen) ==
    IF df = <<>> THEN <<>>
    ELSE LET k == KeyOf(Head(df), subset)
         IN  IF k \in seen
             THEN drop_duplicates_adjacent(Tail(df), subset, seen)
             ELSE <<Head(df)>> \o
                  drop_duplicates_adjacent(Tail(df), subset, {k})

\* Variant: keep="last", the last row of each key is the one kept.
RECURSIVE drop_duplicates_keep_last(_, _, _)
drop_duplicates_keep_last(df, subset, seen) ==
    IF df = <<>> THEN <<>>
    ELSE LET k    == KeyOf(Head(df), subset)
             rest == Tail(df)
         IN  IF \E i \in 1..Len(rest) : KeyOf(rest[i], subset) = k
             THEN drop_duplicates_keep_last(rest, subset, seen)
             ELSE <<Head(df)>> \o
                  drop_duplicates_keep_last(rest, subset, seen)

\* df.drop_duplicates(subset, keep="first"): scan in order, keep a row
\* when its key has not been seen.
RECURSIVE drop_duplicates(_, _, _)
drop_duplicates(df, subset, seen) ==
    IF df = <<>> THEN <<>>
    ELSE LET k == KeyOf(Head(df), subset)
         IN  IF k \in seen
             THEN drop_duplicates(Tail(df), subset, seen)
             ELSE <<Head(df)>> \o
                  drop_duplicates(Tail(df), subset, seen \cup {k})

\* pd.to_datetime(v).dt.date: the calendar date, time of day discarded.
to_date(v) == <<v[1], 0>>

Parseable(v) == v # BadDate

\* date_columns as main passes them for each table.
DATE_COLUMNS ==
    [vendor         |-> {},
     warehouse      |-> {},
     product        |-> {},
     purchase_order |-> {"po_date", "promised_delivery_date"},
     inventory      |-> {},
     shipment       |-> {"event_timestamp", "estimated_delivery_date",
                         "actual_delivery_date"},
     demand         |-> {"date"}]

\* fk_filters as main passes them: column |-> the table and column the
\* reference query selects.
FK_FILTERS ==
    [vendor         |-> {},
     warehouse      |-> {},
     product        |-> {},
     purchase_order |-> {},
     inventory      |-> {},
     shipment       |-> {[column |-> "order_id", table |-> "purchase_order",
                          select |-> "po_id"]},
     demand         |-> {}]

\* Variant: a value that cannot be parsed is let through.
DatesParse_lenient(df, cols) == TRUE

\* The date conversion raises when a value of a date column cannot be
\* parsed (a missing value converts to a missing date).
DatesParse(df, cols) ==
    \A i \in 1..Len(df) : \A c \in cols \cap DOMAIN df[i] : Parseable(df[i][c])

ConvertRow(r, cols) ==
    [c \in DOMAIN r |-> IF c \in cols THEN to_date(r[c]) ELSE r[c]]

ConvertDates(df, cols) == [i \in 1..Len(df) |-> ConvertRow(df[i], cols)]

\* {row[0] for row in conn.execute(query)}
Allowed(d, q) == { r[q.select] : r \in d[q.table] }

\* Variant: no row is filtered.
IsIn_any(r, q, d) == TRUE

\* df[column].isin(allowed) for one row; a missing value is in no set.
IsIn(r, q, d) == Has(r, q.column) /\ r[q.column] \in Allowed(d, q)

\* All filters of the call applied to the frame; a filter on a column
\* the frame lacks is skipped.
FilterFk(df, columns, filters, d) ==
    SelectSeq(df, LAMBDA r :
        \A q \in filters : q.column \in columns => IsIn(r, q, d))

-----------------------------------------------------------------------------
(* The store: SQLite's handling of the declared constraints *)

Keys(rows, subset) == { KeyOf(r, subset) : r \in rows }

\* The foreign keys of table t hold for row r in store d (a NULL
\* reference satisfies a foreign key).
ForeignKeysHold(d, t, r) ==
    \A i \in 1..Len(FOREIGN_KEYS) :
        LET f == FOREIGN_KEYS[i]
        IN  f.child = t =>
              \/ IsNull(r, f.column)
              \/ r[f.column] \in { p[f.parentCol] : p \in d[f.parent] }

\* One INSERT of row r into table t is accepted: NOT NULL, CHECK, PRIMARY
\* KEY and, with enforcement on, FOREIGN KEY.
RowAccepted(d, t, r, fkOn) ==
    /\ \A c \in NOT_NULL[t] : Has(r, c)
    /\ CheckConstraints(t, r)
    /\ KeyOf(r, PRIMARY_KEYS[t]) \notin Keys(d[t], PRIMARY_KEYS[t])
    /\ fkOn => ForeignKeysHold(d, t, r)

\* The INSERTs of one batch, row by row inside one transaction; stops at
\* the first rejected row with the rows before it inserted.
RECURSIVE executemany(_, _, _, _)
executemany(d, t, rows, fkOn) ==
    IF rows = <<>> THEN [ok |-> TRUE, db |-> d]
    ELSE IF RowAccepted(d, t, Head(rows), fkOn)
         THEN executemany([d EXCEPT ![t] = @ \cup {Head(rows)}],
                          t, Tail(rows), fkOn)
         ELSE [ok |-> FALSE, db |-> d]

\* Variant: the rows inserted before the rejected one are kept.
to_sql_no_rollback(d, t, rows, fkOn) == executemany(d, t, rows, fkOn)

\* df.to_sql(table, conn, if_exists='append'): the batch in a transaction
\* that is rolled back when an INSERT raises.
to_sql(d, t, rows, fkOn) ==
    LET res == executemany(d, t, rows, fkOn)
    IN  IF res.ok THEN res ELSE [ok |-> FALSE, db |-> d]

\* The rows of the child table of foreign key f that reference a victim.
Referencing(d, f, victims) ==
    { r \in d[f.child] :
        Has(r, f.column) /\ r[f.column] \in { v[f.parentCol] : v \in victims } }

\* Variant: the DELETE is left out.
DeleteRows_none(d, t, victims, fkOn) == d

\* Variant: the cascade stops at the direct children.
RECURSIVE Cascade_one_level(_, _, _, _)
Cascade_one_level(d, t, victims, i) ==
    IF i > Len(FOREIGN_KEYS) THEN d
    ELSE LET f == FOREIGN_KEYS[i]
         IN  IF f.parent = t
             THEN Cascade_one_level(
                      [d EXCEPT ![f.child] = @ \ Referencing(d, f, victims)],
                      t, victims, i + 1)
             ELSE Cascade_one_level(d, t, victims, i + 1)

\* DELETE of the rows victims of table t.  With enforcement on, ON DELETE
\* CASCADE deletes the referencing rows of every child table, which
\* cascades in turn.
RECURSIVE Cascade(_, _, _, _)
RECURSIVE DeleteRows(_, _, _, _)
Cascade(d, t, victims, i) ==
    IF i > Len(FOREIGN_KEYS) THEN d
    ELSE LET f == FOREIGN_KEYS[i]
         IN  IF f.parent = t
             THEN Cascade(DeleteRows(d, f.child, Referencing(d, f, victims),
                                     TRUE),
                          t, victims, i + 1)
             ELSE Cascade(d, t, victims, i + 1)

DeleteRows(d, t, victims, fkOn) ==
    LET d1 == [d EXCEPT ![t] = @ \ victims]
    IN  IF fkOn THEN Cascade(d1, t, victims, 1) ELSE d1

\* SQLite's LIKE on lower-case text: % matches any run of characters,
\* _ matches exactly one character.
RECURSIVE Like(_, _)
Like(s, pat) ==
    IF pat = <<>> THEN s = <<>>
    ELSE IF Head(pat) = "%"
         THEN Like(s, Tail(pat)) \/ (s # <<>> /\ Like(Tail(s), pat))
         ELSE /\ s # <<>>
              /\ Head(pat) = "_" \/ Head(pat) = Head(s)
              /\ Like(Tail(s), Tail(pat))

\* The pattern 'sqlite_%' of the sqlite_master queries.
SqlitePattern == <<"s","q","l","i","t","e","_","%">>

\* SELECT name FROM sqlite_master WHERE type='table'
\*   AND name NOT LIKE 'sqlite_%'
ListTables(tabs) == { n \in tabs : ~Like(Spelling[n], SqlitePattern) }

\* Variant: the table is created anew whether or not it exists.
CreateTableIfNotExists_replace(rows, present) == {}

\* CREATE TABLE IF NOT EXISTS: the rows of a table after the statement.
CreateTableIfNotExists(rows, present) == IF present THEN rows ELSE {}

\* Variant: the session is opened without the PRAGMA.
connect_no_pragma == FALSE

\* connect(): a new session with PRAGMA foreign_keys = ON.
connect == TRUE

-----------------------------------------------------------------------------
(* State *)

VARIABLES
    tables,   \* names of the tables in the database file
    indexes,  \* names of the indexes in the database file
    db,       \* committed rows of each schema table
    fk,       \* foreign-key enforcement of the session in self.conn
    pc,       \* where the current call stands
    cur,      \* the current call: its arguments and its data frame
    pre,      \* the store as it was when the current call began
    main,     \* the call of main: its statement, its argument, the runs made
    files,    \* the extracts of data/derived, as far as a load has read them
    sessions, \* the sqlite3 sessions the run has opened
    hist      \* what the run has done so far, and what the run before it did

mainvars == <<main, files, sessions, hist>>

vars == <<tables, indexes, db, fk, pc, cur, pre, main, files, sessions, hist>>

NoCall == [op |-> "none"]

Snapshot == [db |-> db, tables |-> tables, indexes |-> indexes]

\* main is not running: the methods are called one by one.
NoMain == [pos |-> "none", k |-> 0, recreate_tables |-> FALSE, runs |-> 0]

\* An extract no load has read yet.
Unread == [kind |-> "unread"]

\* self.conn = None, and no session open.  reclaim: the interpreter
\* closes a session as soon as nothing refers to it (reference counting);
\* otherwise an unreferenced session stays open until a collection that
\* need not come before the run ends.
NoSessions(reclaim) ==
    [conn |-> "none", held |-> 0, unreferenced |-> 0, reclaim |-> reclaim]

NoAfter == [t \in SchemaTables |-> [pc |-> "none", db |-> <<>>]]

NoRun ==
    [db |-> <<>>, attempted |-> <<>>, verified |-> FALSE,
     reported |-> FALSE, after |-> NoAfter]

\* Nothing done yet by a run that starts on store d.
NoHistory(d) ==
    [start |-> d, attempted |-> <<>>, verified |-> FALSE,
     reported |-> FALSE, fatal |-> 0, deleted |-> {}, after |-> NoAfter,
     prev |-> NoRun]

\* SupplyChainDB(db_path): the file at db_path is new or holds a user
\* table of its own; no session is open.
Init ==
    /\ tables \in SUBSET UserTables
    /\ indexes = {}
    /\ db = [t \in SchemaTables |-> {}]
    /\ fk = FALSE
    /\ pc = "idle"
    /\ cur = NoCall
    /\ pre = NoCall
    /\ main = NoMain
    /\ files = [t \in SchemaTables |-> Unread]
    /\ sessions = NoSessions(FALSE)
    /\ hist = NoHistory(db)

-----------------------------------------------------------------------------
(* Operations *)

\* create_tables(): every CREATE TABLE / CREATE INDEX IF NOT EXISTS.
SchemaCreated(tabs, idx, d) ==
    [tables  |-> tabs \cup SchemaTables,
     indexes |-> idx \cup DOMAIN SchemaIndexes,
     db      |-> [t \in SchemaTables |->
                    CreateTableIfNotExists(d[t], t \in tabs)]]

create_tables ==
    /\ pc = "idle"
    /\ LET s == SchemaCreated(tables, indexes, db)
       IN  /\ tables' = s.tables
           /\ indexes' = s.indexes
           /\ db' = s.db
    /\ fk' = connect
    /\ pre' = Snapshot
    /\ cur' = [op |-> "create_tables"]
    /\ pc' = "created"

\* main(recreate_tables=True) up to the loads: enforcement off, DROP TABLE
\* of every listed table, enforcement on, then create_tables().
recreate ==
    /\ pc = "idle"
    /\ LET listed  == ListTables(tables)
           kept    == tables \ listed
           keptIdx == { i \in indexes : SchemaIndexes[i] \in kept }
           s       == SchemaCreated(kept, keptIdx, db)
       IN  /\ tables' = s.tables
           /\ indexes' = s.indexes
           /\ db' = s.db
    /\ fk' = connect
    /\ pre' = Snapshot
    /\ cur' = [op |-> "recreate"]
    /\ pc' = "recreated"

\* load_data_from_csv(t, csv_path, DATE_COLUMNS[t], FK_FILTERS[t]) with src
\* at csv_path, up to conn.commit() after the DELETE.
load_data_from_csv(t, src) ==
    /\ pc = "idle"
    /\ pre' = Snapshot
    /\ UNCHANGED <<tables, indexes>>
    /\ IF ~exists(src)
       THEN /\ pc' = "skipped"
            /\ cur' = [op |-> "load", table |-> t, src |-> src]
            /\ UNCHANGED <<db, fk>>
       ELSE IF ~read_csv(src).ok
       THEN /\ pc' = "load_failed"
            /\ cur' = [op |-> "load", table |-> t, src |-> src]
            /\ UNCHANGED <<db, fk>>
       ELSE LET rows    == read_csv(src).df
                deduped == drop_duplicates(rows, PRIMARY_KEYS[t], {})
                dropped == Len(rows) - Len(deduped)
                call    == [op |-> "load", table |-> t, src |-> src,
                            deduped |-> deduped, duplicates |-> dropped]
            IN  IF ~DatesParse(deduped, DATE_COLUMNS[t])
                THEN /\ pc' = "load_failed"
                     /\ cur' = call
                     /\ UNCHANGED <<db, fk>>
                ELSE LET df == ConvertDates(deduped, DATE_COLUMNS[t])
                     IN  /\ fk' = connect
                         /\ IF t \notin tables
                            THEN /\ pc' = "load_failed"
                                 /\ cur' = call
                                 /\ UNCHANGED db
                            ELSE LET staged == FilterFk(df, CSV_COLUMNS[t],
                                                        FK_FILTERS[t], db)
                                 IN  /\ db' = DeleteRows(db, t, db[t], fk')
                                     /\ cur' = [op |-> "load", table |-> t,
                                                src |-> src,
                                                deduped |-> deduped,
                                                duplicates |-> dropped,
                                                staged |-> staged,
                                                removed |->
                                                  Len(df) - Len(staged)]
                                     /\ pc' = "inserting"

\* The rest of the load: df.to_sql(...) and the final commit, or the
\* exception of a rejected INSERT.
load_insert ==
    /\ pc = "inserting"
    /\ LET res == to_sql(db, cur.table, cur.staged, fk)
       IN  /\ db' = res.db
           /\ pc' = IF res.ok THEN "loaded" ELSE "insert_failed"
    /\ UNCHANGED <<tables, indexes, fk, cur, pre>>

\* DELETE of one row of a schema table in a session opened by connect().
delete_row(t, r) ==
    /\ pc = "idle"
    /\ t \in tables
    /\ r \in db[t]
    /\ fk' = connect
    /\ db' = DeleteRows(db, t, {r}, fk')
    /\ pre' = Snapshot
    /\ cur' = [op |-> "delete_row", table |-> t, row |-> r]
    /\ pc' = "deleted"
    /\ UNCHANGED <<tables, indexes>>

\* The call returns (or its exception reaches the caller).
Return ==
    /\ pc \notin {"idle", "inserting"}
    /\ pc' = "idle"
    /\ cur' = NoCall
    /\ pre' = NoCall
    /\ UNCHANGED <<tables, indexes, db, fk>>

\* The methods called one by one, in any order, on any extract; main is
\* not running and its sessions are not followed.
Next ==
    \/ create_tables /\ UNCHANGED mainvars
    \/ recreate /\ UNCHANGED mainvars
    \/ \E t \in SchemaTables : \E src \in Sources(t) :
          load_data_from_csv(t, src) /\ UNCHANGED mainvars
    \/ load_insert /\ UNCHANGED mainvars
    \/ \E t \in SchemaTables : \E r \in db[t] :
          delete_row(t, r) /\ UNCHANGED mainvars
    \/ Return /\ UNCHANGED mainvars

Spec == Init /\ [][Next]_vars

TypeOK ==
    /\ tables \subseteq SchemaTables \cup UserTables
    /\ indexes \subseteq DOMAIN SchemaIndexes
    /\ fk \in BOOLEAN
    /\ pc \in {"idle", "created", "recreated", "skipped", "load_failed",
               "inserting", "loaded", "insert_failed", "deleted"}

-----------------------------------------------------------------------------
(* main: the orchestrated run *)

\* Calls of main that are followed, one after the other on the same
\* extracts.
Runs == 2

\* Variant: the dependents are loaded before the tables they reference.
LOAD_ORDER_dependents_first ==
    <<"purchase_order", "inventory", "shipment", "demand",
      "product", "warehouse", "vendor">>

\* The load_data_from_csv calls of main, in the order it makes them.
LOAD_ORDER ==
    <<"product", "warehouse", "vendor", "purchase_order", "inventory",
      "shipment", "demand">>

ProductS1 == CHOOSE r \in ProductRows : r["sku_id"] = "S1"

WarehouseW1 == CHOOSE r \in WarehouseRows : Has(r, "location")

VendorV1 == CHOOSE r \in VendorRows : r["defect_rate"] = 2

VendorV1Bad == CHOOSE r \in VendorRows : r["defect_rate"] = 150

OrderP1 ==
    CHOOSE r \in PurchaseOrderRows :
        r["po_qty"] = 10 /\ r["po_date"] = <<1, 10>>

StockS1 ==
    CHOOSE r \in InventoryRows :
        r["sku_id"] = "S1" /\ r["stock_available"] = 5

StockS2 == CHOOSE r \in InventoryRows : r["sku_id"] = "S2"

ShipmentOf(id, order) ==
    CHOOSE r \in ShipmentRows :
        /\ r["shipment_id"] = id
        /\ r["order_id"] = order
        /\ r["status"] = "pending"

DemandAt(d) == CHOOSE r \in DemandRows : r["date"] = d

\* The record sequences an extract of data/derived holds when main runs.
Frames ==
    [product        |-> { <<ProductS1>> },
     warehouse      |-> { <<WarehouseW1>> },
     vendor         |-> { <<VendorV1>>, <<VendorV1Bad>> },
     purchase_order |-> { <<OrderP1>> },
     inventory      |-> { <<StockS1>>, <<StockS2>> },
     shipment       |-> { <<ShipmentOf("H1", "P9"), ShipmentOf("H1", "P1")>>,
                          <<ShipmentOf("H1", "P1"), ShipmentOf("H2", "P9")>> },
     demand         |-> { <<DemandAt(<<1, 0>>)>>,
                          <<DemandAt(<<1, 0>>), DemandAt(<<1, 10>>)>>,
                          <<DemandAt(BadDate)>> }]

\* What a load of main may find at its csv_path.
Extracts(t) == {Missing, EmptyFile} \cup { Records(f) : f \in Frames[t] }

\* The extract of table t: what was read before, or any extract when no
\* load has read it yet.
ReadFile(t) == IF files[t].kind = "unread" THEN Extracts(t) ELSE {files[t]}

\* The store a run on well-formed extracts leaves: one row in each table.
Populated ==
    [product        |-> {ProductS1},
     warehouse      |-> {WarehouseW1},
     vendor         |-> {VendorV1},
     purchase_order |-> {ConvertRow(OrderP1, DATE_COLUMNS["purchase_order"])},
     inventory      |-> {StockS1},
     shipment       |-> {ConvertRow(ShipmentOf("H1", "P1"),
                                    DATE_COLUMNS["shipment"])},
     demand         |-> {DemandAt(<<1, 0>>)}]

\* The load reaches `with self.connect() as conn`: the file is there, is
\* read, and its dates are converted.
Connects(t, src) ==
    /\ exists(src)
    /\ read_csv(src).ok
    /\ DatesParse(drop_duplicates(read_csv(src).df, PRIMARY_KEYS[t], {}),
                  DATE_COLUMNS[t])

\* n open sessions lose their last reference.
Dereference(s, n) ==
    IF s.reclaim THEN s ELSE [s EXCEPT !.unreferenced = @ + n]

\* self.conn = sqlite3.connect(...): a new session; the one self.conn
\* referred to is closed by nobody.
connect_session(s) ==
    [Dereference(s, IF s.conn = "open" THEN 1 ELSE 0) EXCEPT !.conn = "open"]

\* `with db.connect() as conn` in main: the local conn keeps referring to
\* the session when self.conn is assigned anew.
hold_session(s) == [s EXCEPT !.conn = "none", !.held = 1]

\* close(): closes the session of self.conn, if there is one.
close_session(s) == [s EXCEPT !.conn = IF @ = "open" THEN "closed" ELSE @]

\* main returns: its locals are gone.
release_locals(s) == [Dereference(s, s.held) EXCEPT !.held = 0]

\* The sessions of the run that are open.
OpenSessions(s) ==
    (IF s.conn = "open" THEN 1 ELSE 0) + s.held + s.unreferenced

\* Variant: an exception of a load is caught inside the load and the run
\* goes on.
AfterCall_continue(pos, k, raised) ==
    IF pos = "schema" THEN [pos |-> "load", k |-> 1]
    ELSE IF k < Len(LOAD_ORDER) THEN [pos |-> "load", k |-> k + 1]
    ELSE [pos |-> "verify", k |-> k]

\* The statement of main that follows a call: the except clause when the
\* call raised, else the next load, and verify_tables after the last.
AfterCall(pos, k, raised) ==
    IF raised THEN [pos |-> "except", k |-> k]
    ELSE IF pos = "schema" THEN [pos |-> "load", k |-> 1]
    ELSE IF k < Len(LOAD_ORDER) THEN [pos |-> "load", k |-> k + 1]
    ELSE [pos |-> "verify", k |-> k]

\* The database file is new, or holds what an earlier run left; main is
\* called with either value of recreate_tables.
MainInit ==
    /\ \E populated \in BOOLEAN :
          /\ tables = IF populated THEN SchemaTables ELSE {}
          /\ indexes = IF populated THEN DOMAIN SchemaIndexes ELSE {}
          /\ db = IF populated THEN Populated
                  ELSE [t \in SchemaTables |-> {}]
    /\ fk = FALSE
    /\ pc = "idle"
    /\ cur = NoCall
    /\ pre = NoCall
    /\ \E recreate_tables \in BOOLEAN :
          main = [pos |-> "call", k |-> 0,
                  recreate_tables |-> recreate_tables, runs |-> 0]
    /\ files = [t \in SchemaTables |-> Unread]
    /\ \E reclaim \in BOOLEAN : sessions = NoSessions(reclaim)
    /\ hist = NoHistory(db)

\* db = SupplyChainDB(...), then the schema: the drop of every listed
\* table and create_tables(), or create_tables() alone.
main_begin ==
    /\ main.pos = "call"
    /\ IF main.recreate_tables THEN recreate ELSE create_tables
    /\ main' = [main EXCEPT !.pos = "schema"]
    /\ sessions' =
          LET s == NoSessions(sessions.reclaim)
          IN  IF main.recreate_tables
              THEN connect_session(hold_session(connect_session(s)))
              ELSE connect_session(s)
    /\ UNCHANGED <<files, hist>>

\* The next load_data_from_csv call of main, up to the commit of its
\* DELETE.
main_load ==
    /\ main.pos = "load"
    /\ LET t == LOAD_ORDER[main.k]
       IN  \E src \in ReadFile(t) :
              /\ load_data_from_csv(t, src)
              /\ files' = [files EXCEPT ![t] = src]
              /\ sessions' = IF Connects(t, src)
                             THEN connect_session(sessions)
                             ELSE sessions
              /\ hist' = [hist EXCEPT !.attempted = Append(@, t)]
    /\ UNCHANGED main

\* The insert of the load under way.
main_insert ==
    /\ main.pos = "load"
    /\ load_insert
    /\ UNCHANGED mainvars

\* The call made by main returns or raises: main goes on with the next
\* statement or with its except clause.
main_return ==
    /\ main.pos \in {"schema", "load"}
    /\ Return
    /\ LET raised == pc \in {"load_failed", "insert_failed"}
           nxt    == AfterCall(main.pos, main.k, raised)
       IN  /\ main' = [main EXCEPT !.pos = nxt.pos, !.k = nxt.k]
           /\ hist' =
                IF main.pos = "load"
                THEN [hist EXCEPT
                        !.after[cur.table] = [pc |-> pc, db |-> db],
                        !.fatal = IF raised THEN main.k ELSE @,
                        !.deleted = IF pc \in {"loaded", "insert_failed"}
                                    THEN @ \cup {cur.table} ELSE @]
                ELSE hist
    /\ UNCHANGED <<files, sessions>>

\* verify_tables(): a session of its own, the listed tables and their
\* row counts.
main_verify ==
    /\ main.pos = "verify"
    /\ pc = "idle"
    /\ fk' = connect
    /\ sessions' = connect_session(sessions)
    /\ hist' = [hist EXCEPT !.verified = TRUE]
    /\ main' = [main EXCEPT !.pos = "finally"]
    /\ UNCHANGED <<tables, indexes, db, pc, cur, pre, files>>

\* except Exception as e: the error is printed.
main_except ==
    /\ main.pos = "except"
    /\ hist' = [hist EXCEPT !.reported = TRUE]
    /\ main' = [main EXCEPT !.pos = "finally"]
    /\ UNCHANGED <<tables, indexes, db, fk, pc, cur, pre, files, sessions>>

\* finally: db.close(); main returns.
main_finally ==
    /\ main.pos = "finally"
    /\ sessions' = release_locals(close_session(sessions))
    /\ main' = [main EXCEPT !.pos = "done", !.runs = @ + 1]
    /\ UNCHANGED <<tables, indexes, db, fk, pc, cur, pre, files, hist>>

\* main is called once more, with the same argument, on the same
\* extracts.
main_again ==
    /\ main.pos = "done"
    /\ main.runs < Runs
    /\ main' = [main EXCEPT !.pos = "call", !.k = 0]
    /\ hist' = [NoHistory(db) EXCEPT
                  !.prev = [db |-> db, attempted |-> hist.attempted,
                            verified |-> hist.verified,
                            reported |-> hist.reported,
                            after |-> hist.after]]
    /\ UNCHANGED <<tables, indexes, db, fk, pc, cur, pre, files, sessions>>

MainNext ==
    \/ main_begin
    \/ main_load
    \/ main_insert
    \/ main_return
    \/ main_verify
    \/ main_except
    \/ main_finally
    \/ main_again

MainSpec == MainInit /\ [][MainNext]_vars

-----------------------------------------------------------------------------
(* Properties *)

RowsOf(seq) == { seq[i] : i \in 1..Len(seq) }

\* The load has passed its insert step, successfully or not.
InsertDone == pc \in {"loaded", "insert_failed"}

\* The load has produced its data frame for insertion.
Staged == pc \in {"inserting", "loaded", "insert_failed"}

\* Row i of rows is the first one with its primary-key tuple.
FirstOccurrence(rows, subset, i) ==
    \A j \in 1..(i - 1) : KeyOf(rows[j], subset) # KeyOf(rows[i], subset)

FirstIndexes(rows, subset) ==
    { i \in 1..Len(rows) : FirstOccurrence(rows, subset, i) }

\* The k-th smallest element of a set of indexes.
Nth(idx, k) == CHOOSE i \in idx : Cardinality({ j \in idx : j < i }) = k - 1

\* The key values the reference queries of table t return on store d all
\* contain the value of row r.
Referenced(t, r, d) ==
    \A q \in FK_FILTERS[t] :
        Has(r, q.column) /\ r[q.column] \in { p[q.select] : p \in d[q.table] }

\* The rows a successful load of table t from rows leaves, given the
\* store before the call: first occurrences, dates normalised, orphans
\* of the filtered columns dropped.
ExpectedRows(t, rows, before) ==
    { ConvertRow(rows[i], DATE_COLUMNS[t]) :
        i \in { j \in FirstIndexes(rows, PRIMARY_KEYS[t]) :
                  Referenced(t, rows[j], before) } }

\* C1: a load that completes leaves the table holding exactly the
\* deduplicated, date-normalised, FK-filtered rows of its source and
\* nothing of its prior contents (replace, not merge).
C1_ReplaceNotMerge ==
    pc = "loaded" =>
        db[cur.table] = ExpectedRows(cur.table, cur.src.rows, pre.db)

\* A second load of a table with records disjoint from its contents.
C1_Witness ==
    /\ pc = "loaded"
    /\ pre.db[cur.table] # {}
    /\ db[cur.table] # {}
    /\ db[cur.table] \cap pre.db[cur.table] = {}

\* The source of the call holds no records: it is missing, or it is empty
\* (no header at all, or a header and no rows).
NoRecords(src) == src.kind # "records" \/ src.rows = <<>>

LoadEnded == pc \in {"skipped", "load_failed", "loaded", "insert_failed"}

\* C2 as stated: with no source records (missing or empty) the load leaves
\* the target table as it was.
C2_NoRecordsNoOp ==
    (LoadEnded /\ NoRecords(cur.src)) =>
        db[cur.table] = pre.db[cur.table]

\* C2 amended: a load whose source is missing is a no-op (nothing deleted,
\* nothing inserted, no session opened) and ends without an error.
C2_MissingNoOp ==
    (cur.op = "load" /\ cur.src.kind = "missing") =>
        /\ pc = "skipped"
        /\ db = pre.db
        /\ tables = pre.tables
        /\ indexes = pre.indexes

\* A missing source met while the target table holds rows.
C2_Witness ==
    /\ pc = "skipped"
    /\ db[cur.table] # {}

\* C3: when the insert step fails the target table is empty: the prior
\* rows stay deleted and no row of the failing batch remains.
C3_FailedInsertLeavesEmpty ==
    pc = "insert_failed" => db[cur.table] = {}

\* A populated table whose new batch has a valid row before the rejected
\* one.
C3_Witness ==
    /\ pc = "insert_failed"
    /\ pre.db[cur.table] # {}
    /\ Len(cur.staged) >= 2
    /\ RowAccepted(db, cur.table, cur.staged[1], TRUE)

\* C4: the rows kept are the first occurrence of each primary-key tuple
\* in source order, and the reported duplicate count is the source
\* length minus the number of distinct key tuples.
C4_Dedup ==
    (cur.op = "load" /\ "deduped" \in DOMAIN cur) =>
        LET rows == cur.src.rows
            pk   == PRIMARY_KEYS[cur.table]
            idx  == FirstIndexes(rows, pk)
        IN  /\ Len(cur.deduped) = Cardinality(idx)
            /\ \A k \in 1..Len(cur.deduped) :
                   cur.deduped[k] = rows[Nth(idx, k)]
            /\ cur.duplicates = Len(rows) - Cardinality(Keys(RowsOf(rows), pk))

\* A composite-key table with a duplicate between two distinct keys.
C4_Witness ==
    /\ cur.op = "load"
    /\ "deduped" \in DOMAIN cur
    /\ cur.table \in {"inventory", "demand"}
    /\ Len(cur.src.rows) = 3
    /\ Len(cur.deduped) = 2
    /\ KeyOf(cur.src.rows[1], PRIMARY_KEYS[cur.table])
         = KeyOf(cur.src.rows[3], PRIMARY_KEYS[cur.table])

\* C5: with a filter on column c, exactly the rows whose c is among the
\* keys the reference query returned go to the insert; the reported count
\* is the number dropped; the shipment load never meets a missing
\* purchase order at insert, and a completed load holds the kept rows.
C5_OrphanFilter ==
    (Staged /\ FK_FILTERS[cur.table] # {}) =>
        LET t    == cur.table
            conv == ConvertDates(cur.deduped, DATE_COLUMNS[t])
            kept == { i \in 1..Len(conv) : Referenced(t, conv[i], pre.db) }
        IN  /\ RowsOf(cur.staged) = { conv[i] : i \in kept }
            /\ cur.removed = Len(conv) - Cardinality(kept)
            /\ \A r \in RowsOf(cur.staged) : ForeignKeysHold(db, t, r)
            /\ pc = "loaded" => db[t] = { conv[i] : i \in kept }

\* Purchase order P1 exists, the rows reference P1 and P9: one survives.
C5_Witness ==
    /\ pc = "loaded"
    /\ cur.table = "shipment"
    /\ Len(cur.deduped) = 2
    /\ cur.removed = 1
    /\ Cardinality(db["shipment"]) = 1

\* The references of section 3: <<table, column, referenced table, key>>.
References ==
    { <<"purchase_order", "sku_id", "product", "sku_id">>,
      <<"purchase_order", "vendor_id", "vendor", "vendor_id">>,
      <<"inventory", "warehouse_id", "warehouse", "warehouse_id">>,
      <<"inventory", "sku_id", "product", "sku_id">>,
      <<"demand", "sku_id", "product", "sku_id">>,
      <<"shipment", "order_id", "purchase_order", "po_id">> }

\* Every reference of every stored row equals the key of an existing row.
ReferentialIntegrity ==
    \A f \in References :
        \A r \in db[f[1]] :
            /\ Has(r, f[2])
            /\ \E p \in db[f[3]] : p[f[4]] = r[f[2]]

\* C6: referential integrity holds in every state, and a batch with a row
\* whose foreign key references no existing row is rejected.
C6_ReferentialIntegrity ==
    /\ ReferentialIntegrity
    /\ pc = "loaded" =>
          \A r \in RowsOf(cur.staged) : ForeignKeysHold(db, cur.table, r)

\* A purchase-order batch rejected only for its missing product or vendor.
C6_Witness ==
    /\ pc = "insert_failed"
    /\ cur.table = "purchase_order"
    /\ Len(cur.staged) = 1
    /\ RowAccepted(db, cur.table, cur.staged[1], FALSE)
    /\ ~ForeignKeysHold(db, cur.table, cur.staged[1])

\* The value ranges of section 3 of the specification, on stored rows.
DeclaredRanges(t, r) ==
    /\ t = "vendor" =>
         /\ Has(r, "defect_rate") =>
              (r["defect_rate"] >= 0 /\ r["defect_rate"] <= 100)
         /\ Has(r, "lead_time_days") => r["lead_time_days"] >= 0
         /\ Has(r, "quality_score") =>
              (r["quality_score"] >= 0 /\ r["quality_score"] <= 500)
    /\ t = "purchase_order" =>
         /\ r["po_qty"] > 0
         /\ DateGeq(r["promised_delivery_date"], r["po_date"])
    /\ t = "inventory" => r["stock_available"] >= 0
    /\ t = "shipment" =>
         r["status"] \in {"pending", "in_transit", "delivered", "delayed",
                          "cancelled"}
    /\ t = "demand" => (Has(r, "price") => r["price"] >= 0)

RangesHold == \A t \in SchemaTables : \A r \in db[t] : DeclaredRanges(t, r)

\* C7 as stated: every stored row is within its declared ranges, and a
\* load whose record set contains a violating row ends rejected at insert.
C7_RangeEnforcement ==
    /\ RangesHold
    /\ (/\ InsertDone
        /\ \E r \in RowsOf(cur.src.rows) :
              ~DeclaredRanges(cur.table, ConvertRow(r, DATE_COLUMNS[cur.table])))
       => pc = "insert_failed"

\* C7 amended: every stored row is within its declared ranges, and a load
\* in which a violating row survives deduplication and referential
\* filtering ends rejected at insert.
C7_RangeEnforcementStaged ==
    /\ RangesHold
    /\ (InsertDone /\ \E r \in RowsOf(cur.staged) :
                          ~DeclaredRanges(cur.table, r))
       => pc = "insert_failed"

\* A vendor batch with defect_rate 1.5 rejected over a populated store.
C7_Witness ==
    /\ pc = "insert_failed"
    /\ cur.table = "vendor"
    /\ pre.db["vendor"] # {}
    /\ \E r \in RowsOf(cur.staged) : r["defect_rate"] = 150

\* C8: deleting a product, vendor or warehouse row removes the rows that
\* reference it, the shipments of the removed purchase orders, and
\* nothing else.
C8_CascadeDelete ==
    (pc = "deleted" /\ cur.table \in {"product", "vendor", "warehouse"}) =>
        LET t == cur.table
            r == cur.row
            b == pre.db
            orders == { x \in b["purchase_order"] :
                          \/ t = "product" /\ x["sku_id"] = r["sku_id"]
                          \/ t = "vendor" /\ x["vendor_id"] = r["vendor_id"] }
            stock  == { x \in b["inventory"] :
                          \/ t = "product" /\ x["sku_id"] = r["sku_id"]
                          \/ t = "warehouse"
                               /\ x["warehouse_id"] = r["warehouse_id"] }
            sales  == { x \in b["demand"] :
                          t = "product" /\ x["sku_id"] = r["sku_id"] }
            sent   == { x \in b["shipment"] :
                          \E o \in orders : x["order_id"] = o["po_id"] }
            gone   == [u \in SchemaTables |->
                         CASE u = t                -> {r}
                           [] u = "purchase_order" -> orders
                           [] u = "inventory"      -> stock
                           [] u = "demand"         -> sales
                           [] u = "shipment"       -> sent
                           [] OTHER                -> {}]
        IN  \A u \in SchemaTables : db[u] = b[u] \ gone[u]

\* Deleting a product takes its purchase order and that order's shipment
\* with it while rows of the other product stay.
C8_Witness ==
    /\ pc = "deleted"
    /\ cur.table = "product"
    /\ pre.db["shipment"] # {}
    /\ db["shipment"] = {}
    /\ db["purchase_order"] = {}
    /\ pre.db["demand"] # {}
    /\ db["demand"] = {}
    /\ db["inventory"] # {}

\* C9: create_tables on a store that has the schema leaves tables,
\* indexes and rows as they were.
C9_IdempotentCreate ==
    (pc = "created" /\ SchemaTables \subseteq pre.tables) =>
        /\ tables = pre.tables
        /\ indexes = pre.indexes
        /\ db = pre.db

\* create_tables on a populated store.
C9_Witness ==
    /\ pc = "created"
    /\ SchemaTables \subseteq pre.tables
    /\ db["product"] # {}
    /\ db["shipment"] # {}

\* C10: after recreate then create the store holds exactly the seven
\* schema tables, all empty, with foreign-key enforcement on.
C10_RecreateWipes ==
    pc = "recreated" =>
        /\ tables = SchemaTables
        /\ \A t \in SchemaTables : db[t] = {}
        /\ fk = TRUE

\* C16: between the commit of the DELETE and the insert the committed
\* store holds no row of the table being loaded, whatever it held before
\* and whatever is about to be inserted: a reader of the file sees the
\* table empty.
C16_DeleteInsertWindow ==
    pc = "inserting" => db[cur.table] = {}

\* A populated table, emptied, with a non-empty batch still to insert.
C16_Witness ==
    /\ pc = "inserting"
    /\ pre.db[cur.table] # {}
    /\ cur.staged # <<>>
    /\ db[cur.table] = {}

\* A row of the deduplicated frame has a date column that cannot be
\* parsed.
UnparseableDate(call) ==
    /\ "deduped" \in DOMAIN call
    /\ \E i \in 1..Len(call.deduped) :
          \E c \in DATE_COLUMNS[call.table] \cap DOMAIN call.deduped[i] :
              call.deduped[i][c] = BadDate

\* C18: a load that fails before its DELETE (the file cannot be read, a
\* date cannot be parsed, the table or the reference query's table is not
\* there) leaves every table, and the schema, as before the call; and a
\* date that cannot be parsed does fail the load.
C18_EarlyFailureLeavesStore ==
    /\ pc = "load_failed" =>
          /\ db = pre.db
          /\ tables = pre.tables
          /\ indexes = pre.indexes
    /\ (cur.op = "load" /\ UnparseableDate(cur)) => pc = "load_failed"

\* An unparseable date met while the target table holds rows.
C18_Witness ==
    /\ pc = "load_failed"
    /\ UnparseableDate(cur)
    /\ db[cur.table] # {}

\* C19: when the first source row of a primary key is an orphan on a
\* filtered column, no row of that key is inserted or stored, whatever the
\* later rows of the key reference.
C19_DedupBeforeFilter ==
    (Staged /\ FK_FILTERS[cur.table] # {}) =>
        LET t    == cur.table
            rows == cur.src.rows
            pk   == PRIMARY_KEYS[t]
        IN  \A i \in FirstIndexes(rows, pk) :
                ~Referenced(t, rows[i], pre.db) =>
                    /\ KeyOf(rows[i], pk) \notin Keys(RowsOf(cur.staged), pk)
                    /\ KeyOf(rows[i], pk) \notin Keys(db[t], pk)

\* Shipment H1 first with the unknown order P9, then with the existing
\* order P1: the load completes and H1 is not stored.
C19_Witness ==
    /\ pc = "loaded"
    /\ cur.table = "shipment"
    /\ Len(cur.src.rows) >= 2
    /\ cur.src.rows[1]["shipment_id"] = cur.src.rows[2]["shipment_id"]
    /\ ~Referenced("shipment", cur.src.rows[1], pre.db)
    /\ Referenced("shipment", cur.src.rows[2], pre.db)
    /\ db["shipment"] = {}

\* The run has ended: main has returned.
RunEnded == main.pos = "done"

\* The first n loads of the order of section 4.3: the referenced tables
\* Product, Warehouse, Vendor, then PurchaseOrder, Inventory, Shipment,
\* DemandRecord.
Prescribed(n) ==
    SubSeq(<<"product", "warehouse", "vendor", "purchase_order",
             "inventory", "shipment", "demand">>, 1, n)

\* The outcome of a run: the loads it attempted, whether it reached the
\* verification, whether an error reached the handler.
Outcome(h) ==
    [attempted |-> h.attempted, verified |-> h.verified,
     reported |-> h.reported]

\* C11: a run of main on the extracts of the run before it ends the way
\* that run ended and leaves every table with the contents that run left;
\* and a load of a table from the extract it was loaded from before, with
\* the tables it references as they were then, ends the way that load
\* ended and leaves the table with the same contents.
C11_IdempotentLoad ==
    /\ (RunEnded /\ main.runs >= 2) =>
          /\ db = hist.prev.db
          /\ Outcome(hist) = Outcome(hist.prev)
    /\ (main.runs >= 1 /\ main.pos = "load" /\ LoadEnded) =>
          LET t     == cur.table
              first == hist.prev.after[t]
          IN  (/\ first.pc # "none"
               /\ \A f \in References :
                     f[1] = t => db[f[3]] = first.db[f[3]])
              => /\ db[t] = first.db[t]
                 /\ pc = first.pc

\* A second run that reloaded every table, on a store the first run had
\* filled.
C11_Witness ==
    /\ RunEnded
    /\ main.runs = 2
    /\ hist.verified
    /\ hist.start["shipment"] # {}
    /\ db["shipment"] # {}
    /\ db["demand"] # {}
    /\ db["inventory"] # {}

\* C12: when a run of main has ended, however it ended, no session the
\* run opened is open.
C12_HandleRelease ==
    RunEnded => OpenSessions(sessions) = 0

\* C13: once a load of the run has ended in a fatal error, the loads
\* attempted are those up to it, the verification is not made, and the
\* run goes through the error handler to its end.
C13_FatalStopsRun ==
    hist.fatal # 0 =>
        /\ hist.attempted = Prescribed(hist.fatal)
        /\ ~hist.verified
        /\ main.pos \in {"except", "finally", "done"}
        /\ main.pos \in {"finally", "done"} => hist.reported

\* A vendor extract rejected at insert: the run ends with four tables
\* never loaded.
C13_Witness ==
    /\ RunEnded
    /\ hist.fatal = 3
    /\ hist.reported
    /\ hist.attempted = <<"product", "warehouse", "vendor">>

\* A record of table t that is acceptable on its own: its required
\* columns have a value, its dates can be parsed, its values are in
\* range.
WellFormed(t, r) ==
    /\ \A c \in NOT_NULL[t] : Has(r, c)
    /\ \A c \in DATE_COLUMNS[t] \cap DOMAIN r : r[c] # BadDate
    /\ DeclaredRanges(t, ConvertRow(r, DATE_COLUMNS[t]))

\* Every reference of record r of table t that the loader does not
\* pre-filter has its row in the store.
ReferencesMet(t, r) ==
    \A f \in References :
        (/\ f[1] = t
         /\ f[2] \notin { q.column : q \in FK_FILTERS[t] })
        => r[f[2]] \in { p[f[4]] : p \in db[f[3]] }

\* Nothing is wrong with the extracts read but that some are absent and
\* that records share a primary key or reference an unknown purchase
\* order in the pre-filtered column.
OnlyRecoverable ==
    \A t \in SchemaTables :
        \/ files[t].kind \in {"unread", "missing"}
        \/ /\ files[t].kind = "records"
           /\ \A r \in RowsOf(files[t].rows) :
                 WellFormed(t, r) /\ ReferencesMet(t, r)

\* C14: a run whose extracts show only recoverable conditions attempts
\* all seven loads in order and reaches the verification without an
\* error.
C14_RecoverableNeverHalts ==
    (RunEnded /\ OnlyRecoverable) =>
        /\ hist.attempted = Prescribed(7)
        /\ hist.verified
        /\ ~hist.reported

\* A row about to be inserted references a key that is not there.
UnmetReference ==
    \E r \in RowsOf(cur.staged) :
        \E f \in References :
            /\ f[1] = cur.table
            /\ Has(r, f[2])
            /\ r[f[2]] \notin { p[f[4]] : p \in db[f[3]] }

\* C15: in a run every table is loaded after every table it references,
\* and a load whose batch references an absent key fails at its insert.
C15_LoadOrder ==
    /\ \A i \in 1..Len(hist.attempted) :
          \A f \in References :
              f[1] = hist.attempted[i] =>
                  \E j \in 1..(i - 1) : hist.attempted[j] = f[3]
    /\ (InsertDone /\ UnmetReference) => pc = "insert_failed"

\* The inventory load, made after those of product and warehouse, is
\* rejected for a product that the product extract does not hold.
C15_Witness ==
    /\ main.pos = "load"
    /\ pc = "insert_failed"
    /\ cur.table = "inventory"
    /\ hist.attempted =
         <<"product", "warehouse", "vendor", "purchase_order", "inventory">>
    /\ db["product"] # {}
    /\ db["warehouse"] # {}
    /\ UnmetReference

\* The tables whose rows reference table t, directly or through
\* PurchaseOrder.
Dependents(t) ==
    CASE t = "product"        -> {"purchase_order", "inventory", "demand",
                                  "shipment"}
      [] t = "vendor"         -> {"purchase_order", "shipment"}
      [] t = "warehouse"      -> {"inventory"}
      [] t = "purchase_order" -> {"shipment"}
      [] OTHER                -> {}

\* C17: once a load has made its DELETE, every table that depends on the
\* loaded table is empty; and a dependent table whose extract is missing
\* ends the run empty when a table it depends on was reloaded, whatever
\* it held when the run began.
C17_LoadWipesDependents ==
    /\ pc = "inserting" => \A u \in Dependents(cur.table) : db[u] = {}
    /\ RunEnded =>
          \A u \in SchemaTables :
              (/\ files[u].kind = "missing"
               /\ \E t \in hist.deleted : u \in Dependents(t))
              => db[u] = {}

\* Without recreating the tables, the product load empties the inventory,
\* whose extract is missing: the run ends with no inventory row.
C17_Witness ==
    /\ RunEnded
    /\ ~main.recreate_tables
    /\ main.runs = 1
    /\ files["inventory"].kind = "missing"
    /\ "product" \in hist.deleted
    /\ hist.start["inventory"] # {}
    /\ hist.start["shipment"] # {}
    /\ files["shipment"].kind = "missing"
    /\ db["inventory"] = {}
    /\ db["shipment"] = {}

====
